---- MODULE Spec2Model ----
(***************************************************************************)
(* Model of process_excel (src/call_repeat/repeat_final.py): repeated-call *)
(* pairing of a call-centre export.                                        *)
(*                                                                         *)
(* A text is a sequence of symbols.  An ASCII character is one symbol; a   *)
(* non-ASCII character is written by its code point ("U+3000"); a Chinese  *)
(* word without white space is written as one symbol in pinyin.  A cell is *)
(* a text, or NaN for a missing cell (pandas reads it as float nan even    *)
(* with dtype=str).                                                        *)
(***************************************************************************)
EXTENDS Integers, Sequences, FiniteSets, TLC

VARIABLES input, out0, pc, df_str, df_proc, pairs, out_nc, out_c, ret, err

vars == <<input, out0, pc, df_str, df_proc, pairs, out_nc, out_c, ret, err>>

----------------------------------------------------------------------------
(* Symbols and character classes                                           *)

SP == " "
TAB == "\t"
LF == "\n"
CR == "\r"
IDSP == "U+3000"
NBSP == "U+00A0"
FWCOLON == "U+FF1A"

\* what Python's str.strip() and the regex class \s take for white space
Whitespace == {SP, TAB, LF, CR, IDSP, NBSP}

UPPER == <<"A","B","C","D","E","F","G","H","I","J","K","L","M",
           "N","O","P","Q","R","S","T","U","V","W","X","Y","Z">>
LOWER == <<"a","b","c","d","e","f","g","h","i","j","k","l","m",
           "n","o","p","q","r","s","t","u","v","w","x","y","z">>
DIGITS == <<"0","1","2","3","4","5","6","7","8","9">>

Range(s) == {s[i] : i \in DOMAIN s}

Letters == Range(UPPER) \cup Range(LOWER)

\* the symbols in code point order (str comparison in sort_values)
CODE_ORDER == <<TAB, LF, CR, SP>> \o DIGITS \o <<":">> \o UPPER \o LOWER
                \o <<NBSP, IDSP, FWCOLON>>

Code(c) == IF c \in Range(CODE_ORDER)
           THEN CHOOSE i \in DOMAIN CODE_ORDER : CODE_ORDER[i] = c
           ELSE Len(CODE_ORDER) + 1

LowerChar(c) == IF c \in Range(UPPER)
                THEN LOWER[CHOOSE i \in DOMAIN UPPER : UPPER[i] = c]
                ELSE c

\* str.lower()
Lower(s) == [i \in DOMAIN s |-> LowerChar(s[i])]

\* str.replace(a, b) for single symbols
Replace(s, a, b) == [i \in DOMAIN s |-> IF s[i] = a THEN b ELSE s[i]]

NotWs(c) == c \notin Whitespace

\* re.sub(r"\s+", "", s)
RemoveWs(s) == SelectSeq(s, NotWs)

\* s without its longest prefix of symbols of class C
RECURSIVE LStripClass(_, _)
LStripClass(s, C) == IF s # <<>> /\ Head(s) \in C THEN LStripClass(Tail(s), C) ELSE s

RECURSIVE RStripClass(_, _)
RStripClass(s, C) == IF s # <<>> /\ s[Len(s)] \in C
                     THEN RStripClass(SubSeq(s, 1, Len(s) - 1), C) ELSE s

\* str.strip()
Strip(s) == RStripClass(LStripClass(s, Whitespace), Whitespace)

\* Python's < on str: lexicographic by code point, a proper prefix first
RECURSIVE StrLess(_, _)
StrLess(a, b) ==
    IF b = <<>> THEN FALSE
    ELSE IF a = <<>> THEN TRUE
    ELSE IF Head(a) = Head(b) THEN StrLess(Tail(a), Tail(b))
    ELSE Code(Head(a)) < Code(Head(b))

----------------------------------------------------------------------------
(* Cells                                                                   *)

NaN == <<"<NaN>">>
STR_NAN == <<"n", "a", "n">>

\* Series.astype(str): a missing cell becomes the text "nan"
AsStr(cell) == IF cell = NaN THEN STR_NAN ELSE cell

----------------------------------------------------------------------------
(* Program constants                                                       *)

\* EXCLUDE_GROUP = "线上运营组"
EXCLUDE_GROUP == <<"XianShang", "YunYingZu">>
TIME_WINDOW_HOURS == 24
SecondsPerHour == 3600

\* 开始时间, 主叫号码, 接听技能组, 呼入技能组, 坐席分机, 坐席姓名
COL_START == <<"KaiShi", "ShiJian">>
COL_CALLER == <<"ZhuJiaoHaoMa">>
COL_ANSWERED == <<"JieTingJiNengZu">>
COL_INBOUND == <<"HuRuJiNengZu">>
COL_EXT == <<"ZuoXiFenJi">>
COL_NAME == <<"ZuoXiXingMing">>

REQUIRED_COLS == <<COL_START, COL_CALLER, COL_ANSWERED, COL_INBOUND, COL_EXT, COL_NAME>>

\* the loop at line 44 runs over these, in this order
CATEGORICAL_COLS == <<COL_INBOUND, COL_ANSWERED, COL_EXT, COL_NAME>>

\* pair labels: 跨组 / 没跨组
LABEL_CROSS == "KuaZu"
LABEL_SAME == "MeiKuaZu"

----------------------------------------------------------------------------
(* Data frames: [columns |-> <<name, ...>>, rows |-> <<row, ...>>].  A row *)
(* of df_str is [index |-> its label (the position in the sheet), cells    *)
(* |-> <<cell, ...>>]; a row of df_proc has the cells, the added column    *)
(* _rowid and the parsed start time.                                       *)

\* position of the column called name
ColIndex(columns, name) ==
    CHOOSE i \in DOMAIN columns :
        columns[i] = name /\ \A j \in 1..(i - 1) : columns[j] # name

\* row[name]
Get(columns, row, name) == row.cells[ColIndex(columns, name)]

\* _clean_col
CleanCol(c) ==
    LET s1 == Replace(Replace(c, IDSP, SP), NBSP, SP)
        s2 == SelectSeq(s1, LAMBDA x : x \notin {CR, LF})
    IN  Strip(s2)

\* missing = [c for c in REQUIRED_COLS if c not in df_str.columns]
Missing(columns) == SelectSeq(REQUIRED_COLS, LAMBDA c : c \notin Range(columns))

\* line 41: .astype(str).str.replace(r"^[A-Za-z：: ]+", "").str.strip()
CallerPrefixClass == Letters \cup {FWCOLON, ":", SP}
NormCaller(cell) == Strip(LStripClass(AsStr(cell), CallerPrefixClass))

\* lines 45-46: all white space removed, then "nan" in any case becomes ""
NormCat(cell) ==
    LET s == RemoveWs(AsStr(cell))
    IN  IF Lower(s) # STR_NAN THEN s ELSE <<>>

\* df[name] = f(df[name]), f the caller's normalisation at line 41 and the
\* categorical one at lines 45-46
NormCol(df, name) ==
    LET k == ColIndex(df.columns, name)
    IN  [df EXCEPT !.rows =
            [i \in DOMAIN df.rows |->
                [df.rows[i] EXCEPT !.cells[k] =
                    IF name = COL_CALLER THEN NormCaller(df.rows[i].cells[k])
                    ELSE NormCat(df.rows[i].cells[k])]]]

\* the loop of lines 44-46, from the k-th column on
RECURSIVE NormCats(_, _)
NormCats(df, k) ==
    IF k > Len(CATEGORICAL_COLS) THEN df
    ELSE NormCats(NormCol(df, CATEGORICAL_COLS[k]), k + 1)

\* lines 41-46
Normalize(df) == NormCats(NormCol(df, COL_CALLER), 1)

\* the mask without its 坐席姓名 term
Keep_NoNameCheck(columns, row) ==
    /\ Get(columns, row, COL_INBOUND) # <<>>
    /\ Get(columns, row, COL_ANSWERED) # <<>>
    /\ Get(columns, row, COL_EXT) # <<>>
    /\ Get(columns, row, COL_INBOUND) # EXCLUDE_GROUP

\* the mask with a term for an empty 主叫号码
Keep_NonEmptyCaller(columns, row) ==
    /\ Get(columns, row, COL_CALLER) # <<>>
    /\ Get(columns, row, COL_INBOUND) # <<>>
    /\ Get(columns, row, COL_ANSWERED) # <<>>
    /\ Get(columns, row, COL_EXT) # <<>>
    /\ Get(columns, row, COL_NAME) # <<>>
    /\ Get(columns, row, COL_INBOUND) # EXCLUDE_GROUP

\* the row mask of lines 49-55
Keep(columns, row) ==
    /\ Get(columns, row, COL_INBOUND) # <<>>
    /\ Get(columns, row, COL_ANSWERED) # <<>>
    /\ Get(columns, row, COL_EXT) # <<>>
    /\ Get(columns, row, COL_NAME) # <<>>
    /\ Get(columns, row, COL_INBOUND) # EXCLUDE_GROUP

\* the mask computed and not applied
Filter_NotApplied(df) == df

\* df_str[mask].copy(): the kept rows, in order, with their labels
Filter(df) == [df EXCEPT !.rows = SelectSeq(df.rows, LAMBDA r : Keep(df.columns, r))]

----------------------------------------------------------------------------
(* Time                                                                    *)

NaT == -1

T_0 == <<"2024-01-01 00:00:00">>
T_1H == <<"2024-01-01 01:00:00">>
T_24H == <<"2024-01-02 00:00:00">>
T_24H1S == <<"2024-01-02 00:00:01">>
T_30H == <<"2024-01-02 06:00:00">>
T_BAD == <<"n/a">>

\* pd.to_datetime(..., errors="coerce") on the texts above, in seconds since
\* 2024-01-01 00:00:00; anything else, a missing cell included, is NaT
ToDatetime(cell) ==
    CASE cell = T_0 -> 0
      [] cell = T_1H -> SecondsPerHour
      [] cell = T_24H -> 24 * SecondsPerHour
      [] cell = T_24H1S -> 24 * SecondsPerHour + 1
      [] cell = T_30H -> 30 * SecondsPerHour
      [] OTHER -> NaT

\* pd.Timedelta(hours=TIME_WINDOW_HOURS)
Window == TIME_WINDOW_HOURS * SecondsPerHour

\* lines 58-60: the copy with _rowid and the parsed start time
MakeProc(df) ==
    [i \in DOMAIN df.rows |->
        [cells |-> df.rows[i].cells,
         _rowid |-> i - 1,
         time |-> ToDatetime(Get(df.columns, df.rows[i], COL_START))]]

\* .isna().all() in place of .isna().any()
HasNaT_All(proc) == proc # <<>> /\ \A i \in DOMAIN proc : proc[i].time = NaT

HasNaT(proc) == \E i \in DOMAIN proc : proc[i].time = NaT

----------------------------------------------------------------------------
(* Sorting and pairing                                                     *)

CallerOf(columns, r) == Get(columns, r, COL_CALLER)

\* the per-group sort not stable: equal times come out in reverse
RowGreater_TiesReversed(columns, by, a, b) ==
    IF Head(by) = COL_CALLER
    THEN \/ StrLess(CallerOf(columns, b), CallerOf(columns, a))
         \/ CallerOf(columns, a) = CallerOf(columns, b) /\ a.time > b.time
    ELSE a.time >= b.time

\* the order of sort_values: by is <<COL_CALLER, COL_START>> at line 63 and
\* <<COL_START>> at line 69; the start time column holds the parsed time
RowGreater(columns, by, a, b) ==
    IF Head(by) = COL_CALLER
    THEN \/ StrLess(CallerOf(columns, b), CallerOf(columns, a))
         \/ CallerOf(columns, a) = CallerOf(columns, b) /\ a.time > b.time
    ELSE a.time > b.time

\* kind="stable": each row goes before the first row that is greater
RECURSIVE InsertSorted(_, _, _, _)
InsertSorted(columns, by, sorted, r) ==
    IF sorted = <<>> THEN <<r>>
    ELSE IF RowGreater(columns, by, Head(sorted), r) THEN <<r>> \o sorted
    ELSE <<Head(sorted)>> \o InsertSorted(columns, by, Tail(sorted), r)

\* sort_values(by, kind="stable")
RECURSIVE sort_values(_, _, _)
sort_values(columns, by, s) ==
    IF s = <<>> THEN <<>>
    ELSE InsertSorted(columns, by,
                      sort_values(columns, by, SubSeq(s, 1, Len(s) - 1)), s[Len(s)])

\* groupby("主叫号码", sort=False): the keys in order of first appearance
RECURSIVE GroupKeys(_, _)
GroupKeys(columns, proc) ==
    IF proc = <<>> THEN <<>>
    ELSE LET k == CallerOf(columns, Head(proc))
         IN  <<k>> \o GroupKeys(columns,
                 SelectSeq(Tail(proc), LAMBDA r : CallerOf(columns, r) # k))

Group(columns, proc, k) == SelectSeq(proc, LAMBDA r : CallerOf(columns, r) = k)

\* < in place of <=
InWindow_Strict(a_time, b_time) == (b_time - a_time) < Window

\* line 73
InWindow(a_time, b_time) == (b_time - a_time) <= Window

\* the two columns taken from the wrong sides
Cross_Swapped(columns, a, b) == Get(columns, a, COL_INBOUND) # Get(columns, b, COL_ANSWERED)

\* line 76
Cross(columns, a, b) == Get(columns, a, COL_ANSWERED) # Get(columns, b, COL_INBOUND)

\* lines 74-77
MakePair(columns, a, b) ==
    <<IF Cross(columns, a, b) THEN LABEL_CROSS ELSE LABEL_SAME, a._rowid, b._rowid>>

\* lines 70-77: for i in range(len(g) - 1), from position i (1-based)
RECURSIVE GroupPairs(_, _, _)
GroupPairs(columns, g, i) ==
    IF i > Len(g) - 1 THEN <<>>
    ELSE (IF InWindow(g[i].time, g[i + 1].time)
          THEN <<MakePair(columns, g[i], g[i + 1])>> ELSE <<>>)
         \o GroupPairs(columns, g, i + 1)

RECURSIVE AllPairs(_, _, _)
AllPairs(columns, proc, keys) ==
    IF keys = <<>> THEN <<>>
    ELSE GroupPairs(columns, sort_values(columns, <<COL_START>>, Group(columns, proc, Head(keys))), 1)
         \o AllPairs(columns, proc, Tail(keys))

\* lines 67-77
Pairing(columns, proc) == AllPairs(columns, proc, GroupKeys(columns, proc))

----------------------------------------------------------------------------
(* Export                                                                  *)

NoFile == [exists |-> FALSE, columns |-> <<>>, rows |-> <<>>]
StaleFile == [exists |-> TRUE, columns |-> <<<<"old">>>>, rows |-> <<>>]

\* DataFrame.to_excel(path, index=False)
ToExcel(columns, rows) == [exists |-> TRUE, columns |-> columns, rows |-> rows]

\* the B row appended before the A row
RECURSIVE pairs_to_original_rows_BFirst(_, _)
pairs_to_original_rows_BFirst(df, pairs_subset) ==
    IF pairs_subset = <<>> THEN <<>>
    ELSE LET p == Head(pairs_subset)
         IN  <<df.rows[p[3] + 1].cells, df.rows[p[2] + 1].cells>>
             \o pairs_to_original_rows_BFirst(df, Tail(pairs_subset))

\* lines 89-94
RECURSIVE pairs_to_original_rows(_, _)
pairs_to_original_rows(df, pairs_subset) ==
    IF pairs_subset = <<>> THEN <<>>
    ELSE LET p == Head(pairs_subset)
         IN  <<df.rows[p[2] + 1].cells, df.rows[p[3] + 1].cells>>
             \o pairs_to_original_rows(df, Tail(pairs_subset))

\* lines 96-97
PairsWith(ps, label) == SelectSeq(ps, LAMBDA p : p[1] = label)

----------------------------------------------------------------------------
(* process_excel, by the numbered steps of its body                        *)

EmptyFrame == [columns |-> <<>>, rows |-> <<>>]

\* step 1 (lines 21-31): read the sheet, every cell as text, clean the header
Load ==
    /\ pc = "start"
    /\ df_str' = [columns |-> [i \in DOMAIN input.columns |-> CleanCol(input.columns[i])],
                  rows |-> [i \in DOMAIN input.rows |->
                               [index |-> i - 1, cells |-> input.rows[i]]]]
    /\ pc' = "loaded"
    /\ UNCHANGED <<input, out0, df_proc, pairs, out_nc, out_c, ret, err>>

\* step 2 (lines 34-37): a required column is missing
SchemaError ==
    /\ pc = "loaded"
    /\ Missing(df_str.columns) # <<>>
    /\ err' = [kind |-> "ValueError", missing |-> Missing(df_str.columns),
               required |-> REQUIRED_COLS]
    /\ pc' = "failed"
    /\ UNCHANGED <<input, out0, df_str, df_proc, pairs, out_nc, out_c, ret>>

\* step 3 (lines 39-55): normalise and filter df_str itself
NormalizeFilter ==
    /\ pc = "loaded"
    /\ Missing(df_str.columns) = <<>>
    /\ df_str' = Filter(Normalize(df_str))
    /\ pc' = "filtered"
    /\ UNCHANGED <<input, out0, df_proc, pairs, out_nc, out_c, ret, err>>

\* step 4 (lines 58-62): a start time of a kept row does not parse
TimeParseError ==
    /\ pc = "filtered"
    /\ HasNaT(MakeProc(df_str))
    /\ df_proc' = MakeProc(df_str)
    /\ err' = [kind |-> "ValueError", missing |-> <<>>, required |-> <<COL_START>>]
    /\ pc' = "failed"
    /\ UNCHANGED <<input, out0, df_str, pairs, out_nc, out_c, ret>>

\* step 4 (lines 58-64): all start times parse; sort by caller, then time
ParseSort ==
    /\ pc = "filtered"
    /\ ~HasNaT(MakeProc(df_str))
    /\ df_proc' = sort_values(df_str.columns, <<COL_CALLER, COL_START>>, MakeProc(df_str))
    /\ pc' = "sorted"
    /\ UNCHANGED <<input, out0, df_str, pairs, out_nc, out_c, ret, err>>

\* step 5 (lines 67-77)
Pair ==
    /\ pc = "sorted"
    /\ pairs' = Pairing(df_str.columns, df_proc)
    /\ pc' = "paired"
    /\ UNCHANGED <<input, out0, df_str, df_proc, out_nc, out_c, ret, err>>

\* the early return without the two to_excel calls
ExportEmpty_NoWrite ==
    /\ pc = "paired"
    /\ pairs = <<>>
    /\ ret' = <<0, 0>>
    /\ pc' = "done"
    /\ UNCHANGED <<input, out0, df_str, df_proc, pairs, out_nc, out_c, err>>

\* step 6 (lines 84-87): no pair at all
ExportEmpty ==
    /\ pc = "paired"
    /\ pairs = <<>>
    /\ out_nc' = ToExcel(df_str.columns, <<>>)
    /\ out_c' = ToExcel(df_str.columns, <<>>)
    /\ ret' = <<0, 0>>
    /\ pc' = "done"
    /\ UNCHANGED <<input, out0, df_str, df_proc, pairs, err>>

\* step 6 (lines 89-105)
ExportPairs ==
    /\ pc = "paired"
    /\ pairs # <<>>
    /\ LET pairs_nc == PairsWith(pairs, LABEL_SAME)
           pairs_c == PairsWith(pairs, LABEL_CROSS)
       IN  /\ out_nc' = ToExcel(df_str.columns, pairs_to_original_rows(df_str, pairs_nc))
           /\ out_c' = ToExcel(df_str.columns, pairs_to_original_rows(df_str, pairs_c))
           /\ ret' = <<Len(pairs_nc), Len(pairs_c)>>
    /\ pc' = "done"
    /\ UNCHANGED <<input, out0, df_str, df_proc, pairs, err>>

Next ==
    \/ Load
    \/ SchemaError
    \/ NormalizeFilter
    \/ TimeParseError
    \/ ParseSort
    \/ Pair
    \/ ExportEmpty
    \/ ExportPairs

----------------------------------------------------------------------------
(* Inputs                                                                  *)

MaxRows == 3

\* the sheet's header, with the dirt _clean_col removes: 开始\n时间 and so on
HEADER_DIRTY == <<<<"KaiShi", LF, "ShiJian">>, <<IDSP>> \o COL_CALLER,
                  <<NBSP>> \o COL_INBOUND \o <<SP>>, COL_ANSWERED \o <<CR, LF>>,
                  COL_EXT, <<TAB>> \o COL_NAME>>
\* the same with "开始 时间", which no cleaning turns into 开始时间
HEADER_MISSING == <<<<"KaiShi", SP, "ShiJian">>, <<IDSP>> \o COL_CALLER,
                    <<NBSP>> \o COL_INBOUND \o <<SP>>, COL_ANSWERED \o <<CR, LF>>,
                    COL_EXT, <<TAB>> \o COL_NAME>>

\* a header without 呼入技能组 and 坐席姓名 (the columns are 呼入组 and 备注)
HEADER_MISSING_TWO == <<COL_START, COL_CALLER, <<"HuRuZu">>, COL_ANSWERED,
                        COL_EXT, <<"BeiZhu">>>>

Headers == {HEADER_DIRTY, HEADER_MISSING}

\* the cells of a sheet row, in the header's order
Row(t, caller, answered, inbound, ext, name) == <<t, caller, inbound, answered, ext, name>>

C_138 == <<"1", "3", "8">>
C_139 == <<"1", "3", "9">>
C_TEL_138 == <<"T", "E", "L", ":", "1", "3", "8">>
C_TEL_FW_138 == <<"t", "e", "l", FWCOLON, SP, "1", "3", "8", TAB>>
C_LETTERS == <<"a", "b", "c">>
C_PREFIX_ONLY == <<"X", ":", SP>>
G_A == <<"A">>
G_B == <<"B">>
G_A_SPACED == <<SP, "A", IDSP>>
G_NAN_UPPER == <<"N", "a", "N">>
G_NAN_SPACED == <<"n", SP, "a", "n">>
G_EXCLUDE_SPACED == <<"XianShang", SP, "YunYingZu">>
EXT_1 == <<"8", "0", "1">>
EXT_BLANK == <<IDSP, TAB>>
NAME_1 == <<"Li">>
NAME_2 == <<"Li", SP, "Na">>

InitWith(Hs, Rs, Olds) ==
    /\ \E n \in 0..MaxRows :
           input \in [columns : Hs, rows : [1..n -> Rs]]
    /\ out0 \in Olds
    /\ out_nc = out0
    /\ out_c = out0
    /\ pc = "start"
    /\ df_str = EmptyFrame
    /\ df_proc = <<>>
    /\ pairs = <<>>
    /\ ret = <<>>
    /\ err = [kind |-> "", missing |-> <<>>, required |-> <<>>]

\* rows that differ in start time and caller
RowsTime ==
    {Row(t, c, G_A, G_A, EXT_1, NAME_1) :
        t \in {T_0, T_1H, T_24H, T_24H1S, T_30H}, c \in {C_138, C_139}}
    \cup {Row(T_BAD, C_138, G_A, G_A, EXT_1, NAME_1)}

InitTime == InitWith(Headers, RowsTime, {NoFile})

SpecTime == InitTime /\ [][Next]_vars

\* rows of one caller that differ in the two groups, and in start time
RowsGroup ==
    {Row(t, C_138, a, i, EXT_1, NAME_1) : t \in {T_0, T_24H}, a \in {G_A, G_B}, i \in {G_A, G_B}}
    \cup {Row(T_1H, C_138, G_A_SPACED, G_A_SPACED, EXT_1, NAME_2),
          Row(T_BAD, C_138, G_A, G_B, EXT_1, NAME_1)}

InitGroup == InitWith(Headers, RowsGroup, {NoFile})

SpecGroup == InitGroup /\ [][Next]_vars

\* rows of one caller the filter keeps, and rows it drops
RowsFilter ==
    {Row(t, C_138, G_A, G_B, EXT_1, NAME_1) : t \in {T_0, T_1H, T_24H, T_BAD}}
    \cup {Row(T_1H, C_138, G_A, G_B, EXT_1, <<>>),
          Row(T_1H, C_138, G_A, G_B, EXT_1, NaN),
          Row(T_1H, C_138, G_A, G_B, EXT_BLANK, NAME_1),
          Row(T_1H, C_138, G_NAN_UPPER, G_B, EXT_1, NAME_1),
          Row(T_1H, C_138, G_A, G_NAN_SPACED, EXT_1, NAME_1),
          Row(T_1H, C_138, G_A, EXCLUDE_GROUP, EXT_1, NAME_1),
          Row(T_1H, C_138, G_A, G_EXCLUDE_SPACED, EXT_1, NAME_1),
          Row(T_BAD, C_138, G_A, EXCLUDE_GROUP, EXT_1, NAME_1)}

InitFilter == InitWith(Headers \cup {HEADER_MISSING_TWO}, RowsFilter, {NoFile, StaleFile})

SpecFilter == InitFilter /\ [][Next]_vars

\* rows that differ in the caller number's text
RowsCaller ==
    {Row(t, c, G_A, G_A, EXT_1, NAME_1) :
        t \in {T_0, T_1H},
        c \in {C_138, C_TEL_138, C_TEL_FW_138, C_LETTERS, C_PREFIX_ONLY, NaN}}
    \cup {Row(T_BAD, C_LETTERS, G_A, G_A, EXT_1, NAME_1)}

InitCaller == InitWith(Headers, RowsCaller, {NoFile})

SpecCaller == InitCaller /\ [][Next]_vars

----------------------------------------------------------------------------
(* The sheet as the claims see it: rows 1..n of the input, read through    *)
(* the cleaned header                                                      *)

CleanedHeader == [i \in DOMAIN input.columns |-> CleanCol(input.columns[i])]
HeaderOk == \A k \in DOMAIN REQUIRED_COLS : REQUIRED_COLS[k] \in Range(CleanedHeader)

SheetRows == DOMAIN input.rows
SrcCell(i, name) == input.rows[i][ColIndex(CleanedHeader, name)]
SrcTime(i) == ToDatetime(SrcCell(i, COL_START))
SrcCaller(i) == NormCaller(SrcCell(i, COL_CALLER))
SrcCat(i, name) == NormCat(SrcCell(i, name))

\* the sheet row survives the filter
SrcKept(i) ==
    /\ \A k \in DOMAIN CATEGORICAL_COLS : SrcCat(i, CATEGORICAL_COLS[k]) # <<>>
    /\ SrcCat(i, COL_INBOUND) # EXCLUDE_GROUP

\* the sheet row behind a row id
SheetRowOf(rid) == df_str.rows[rid + 1].index + 1

Paired == pc \in {"paired", "done"}
PairSet == Range(pairs)

\* the pairs as (sheet row of A, sheet row of B)
PairedSheetRows == {<<SheetRowOf(p[2]), SheetRowOf(p[3])>> : p \in PairSet}

\* a sheet row as the filter and the pairing read it
Reading(caller, time, inbound, answered, ext, name) ==
    [caller |-> caller, time |-> time, inbound |-> inbound, answered |-> answered,
     kept |-> /\ inbound # <<>> /\ answered # <<>> /\ ext # <<>> /\ name # <<>>
              /\ inbound # EXCLUDE_GROUP]

\* the readings of the sheet rows, through header h
SheetWith(h) ==
    [i \in SheetRows |->
        Reading(NormCaller(input.rows[i][ColIndex(h, COL_CALLER)]),
                ToDatetime(input.rows[i][ColIndex(h, COL_START)]),
                NormCat(input.rows[i][ColIndex(h, COL_INBOUND)]),
                NormCat(input.rows[i][ColIndex(h, COL_ANSWERED)]),
                NormCat(input.rows[i][ColIndex(h, COL_EXT)]),
                NormCat(input.rows[i][ColIndex(h, COL_NAME)]))]

Sheet == CHOOSE sh \in {SheetWith(h) : h \in {CleanedHeader}} : TRUE

\* i comes before j in their caller's sequence: by time, ties by sheet order
Before(sh, i, j) ==
    /\ sh[i].caller = sh[j].caller
    /\ \/ sh[i].time < sh[j].time
       \/ sh[i].time = sh[j].time /\ i < j

\* i and j are neighbours in the sequence of the surviving records
Adjacent(sh, i, j) ==
    /\ sh[i].kept /\ sh[j].kept
    /\ Before(sh, i, j)
    /\ ~\E k \in DOMAIN sh : sh[k].kept /\ Before(sh, i, k) /\ Before(sh, k, j)

WithinWindow(sh, i, j) == sh[j].time - sh[i].time <= TIME_WINDOW_HOURS * SecondsPerHour

ExpectedPairsOf(sh) ==
    {ij \in (DOMAIN sh) \X (DOMAIN sh) :
        Adjacent(sh, ij[1], ij[2]) /\ WithinWindow(sh, ij[1], ij[2])}

CountLabel(label) == Cardinality({k \in DOMAIN pairs : pairs[k][1] = label})

----------------------------------------------------------------------------
(* Claims                                                                  *)

\* C1: round trip - after a successful run every row of both output tables
\* equals, cell for cell, the sheet row of the record it was written for
\* (the A row and the B row of each pair, in pair order).
C1_RoundTrip ==
    pc = "done" =>
        LET nc == SelectSeq(pairs, LAMBDA p : p[1] = LABEL_SAME)
            c == SelectSeq(pairs, LAMBDA p : p[1] = LABEL_CROSS)
        IN  /\ \A k \in DOMAIN nc :
                   /\ out_nc.rows[2 * k - 1] = input.rows[SheetRowOf(nc[k][2])]
                   /\ out_nc.rows[2 * k] = input.rows[SheetRowOf(nc[k][3])]
            /\ \A k \in DOMAIN c :
                   /\ out_c.rows[2 * k - 1] = input.rows[SheetRowOf(c[k][2])]
                   /\ out_c.rows[2 * k] = input.rows[SheetRowOf(c[k][3])]

\* C2: the emitted pairs are exactly the neighbouring records (i, i+1) of each
\* caller's time-ordered sequence of surviving records whose time difference is
\* at most 24 hours (24h00m00s in, 24h00m01s out), each emitted once, and the
\* two returned counts add up to their number.
C2_AdjacentPairsWithinWindow ==
    Paired =>
        \A sh \in {Sheet} : \A expected \in {ExpectedPairsOf(sh)} :
            /\ PairedSheetRows = expected
            /\ Len(pairs) = Cardinality(expected)
            /\ pc = "done" => ret[1] + ret[2] = Cardinality(expected)

\* C2 witness: three calls of one caller at t0, t0+24h and t0+24h (in another
\* sheet order): the pair at exactly 24h is emitted, the first and the last
\* call are within the window but not neighbours, and two pairs are counted.
C2_Witness ==
    /\ pc = "done"
    /\ Len(input.rows) = 3
    /\ SrcTime(1) = 24 * SecondsPerHour
    /\ SrcTime(2) = 0
    /\ SrcTime(3) = 24 * SecondsPerHour
    /\ SrcCaller(1) = SrcCaller(2) /\ SrcCaller(2) = SrcCaller(3)
    /\ PairedSheetRows = {<<2, 1>>, <<1, 3>>}
    /\ ret[1] + ret[2] = 2

\* C3: a pair is cross-group exactly when the predecessor's answered group
\* differs from the successor's inbound group (as normalised texts); it has one
\* of the two labels, and the returned counts split the pairs by label.
C3_Classification ==
    Paired =>
        /\ \A sh \in {Sheet} : \A p \in PairSet :
              /\ p[1] \in {LABEL_CROSS, LABEL_SAME}
              /\ p[1] = LABEL_CROSS <=>
                    sh[SheetRowOf(p[2])].answered # sh[SheetRowOf(p[3])].inbound
        /\ pc = "done" =>
              /\ ret = <<CountLabel(LABEL_SAME), CountLabel(LABEL_CROSS)>>
              /\ ret[1] + ret[2] = Len(pairs)

\* C3 witness: a same-group pair whose other two group cells differ from the
\* compared ones, so that comparing inbound with inbound, or answered with
\* answered, would call it cross-group.
C3_Witness ==
    /\ pc = "done"
    /\ \E p \in PairSet :
          /\ p[1] = LABEL_SAME
          /\ SrcCat(SheetRowOf(p[2]), COL_INBOUND) # SrcCat(SheetRowOf(p[2]), COL_ANSWERED)
          /\ SrcCat(SheetRowOf(p[3]), COL_INBOUND) # SrcCat(SheetRowOf(p[3]), COL_ANSWERED)

\* C4: after a successful run no written row comes from a sheet record with an
\* empty categorical field after normalisation (white space removed, "nan" in
\* any case empty), and no written row has the excluded inbound group.
C4_FilteringCorrectness ==
    pc = "done" =>
        /\ \A p \in PairSet : \A rid \in {p[2], p[3]} :
              /\ \A k \in DOMAIN CATEGORICAL_COLS :
                    SrcCat(SheetRowOf(rid), CATEGORICAL_COLS[k]) # <<>>
              /\ SrcCat(SheetRowOf(rid), COL_INBOUND) # EXCLUDE_GROUP
              /\ SrcCell(SheetRowOf(rid), COL_INBOUND) # EXCLUDE_GROUP
              /\ Sheet[SheetRowOf(rid)].kept
        /\ \A f \in {out_nc, out_c} : \A k \in DOMAIN f.rows :
              /\ f.rows[k][ColIndex(f.columns, COL_INBOUND)] \notin {<<>>, EXCLUDE_GROUP}
              /\ f.rows[k][ColIndex(f.columns, COL_ANSWERED)] # <<>>
              /\ f.rows[k][ColIndex(f.columns, COL_EXT)] # <<>>
              /\ f.rows[k][ColIndex(f.columns, COL_NAME)] # <<>>
        /\ Len(out_nc.rows) + Len(out_c.rows) = 2 * Len(pairs)

\* C4 witness: a run that wrote a pair while the sheet also held a record the
\* filter had to drop.
C4_Witness ==
    /\ pc = "done"
    /\ pairs # <<>>
    /\ \E i \in SheetRows : ~SrcKept(i)

\* C5: a missing required column, or an unparseable start time on a record
\* that survives the filter, stops the run before anything is written: the
\* run never gets past the check, and until a run is done both output files
\* are what they were; an unparseable start time on a dropped record alone does
\* not fail the run.
C5_FatalErrorsBeforeOutput ==
    /\ pc # "done" => out_nc = out0 /\ out_c = out0 /\ ret = <<>>
    /\ ~HeaderOk => pc \in {"start", "loaded", "failed"}
    /\ pc \in {"sorted", "paired", "done"} =>
          \A sh \in {Sheet} : \A i \in DOMAIN sh : sh[i].kept => sh[i].time # NaT
    /\ (pc = "failed" /\ HeaderOk) =>
          \A sh \in {Sheet} : \E i \in DOMAIN sh : sh[i].kept /\ sh[i].time = NaT
    /\ pc = "failed" =>
          /\ err.kind = "ValueError"
          /\ ~HeaderOk => /\ err.missing # <<>>
                          /\ Range(err.missing) = Range(REQUIRED_COLS) \ Range(CleanedHeader)
                          /\ err.required = REQUIRED_COLS

\* C5 witness: a run that failed on a surviving record's start time, though
\* a dropped record parses no better, with output files of an earlier run
\* still in place.
C5_Witness ==
    /\ pc = "failed"
    /\ HeaderOk
    /\ \E i \in SheetRows : SrcKept(i) /\ SrcTime(i) = NaT
    /\ \E i \in SheetRows : ~SrcKept(i) /\ SrcTime(i) = NaT
    /\ out0 = StaleFile
    /\ out_nc = StaleFile /\ out_c = StaleFile

\* C6: each table is the concatenation, over the pairs of its label in
\* emission order, of the A row then the B row as df_str holds them; a record
\* in two pairs is written for each; the counts are the numbers of pairs per
\* label and each table has twice its count in rows.
C6_ExportContent ==
    pc = "done" =>
        \A nc \in {SelectSeq(pairs, LAMBDA p : p[1] = LABEL_SAME)} :
        \A c \in {SelectSeq(pairs, LAMBDA p : p[1] = LABEL_CROSS)} :
            /\ ret = <<Len(nc), Len(c)>>
            /\ out_nc.exists /\ out_c.exists
            /\ Len(out_nc.rows) = 2 * ret[1]
            /\ Len(out_c.rows) = 2 * ret[2]
            /\ \A k \in DOMAIN nc :
                  /\ out_nc.rows[2 * k - 1] = df_str.rows[nc[k][2] + 1].cells
                  /\ out_nc.rows[2 * k] = df_str.rows[nc[k][3] + 1].cells
            /\ \A k \in DOMAIN c :
                  /\ out_c.rows[2 * k - 1] = df_str.rows[c[k][2] + 1].cells
                  /\ out_c.rows[2 * k] = df_str.rows[c[k][3] + 1].cells

\* C6 witness: a record that is the B of a same-group pair and the A of a
\* cross-group pair, written once in each table, its rows differing from its
\* neighbours'.
C6_Witness ==
    /\ pc = "done"
    /\ \E p \in PairSet, q \in PairSet :
          /\ p[1] = LABEL_SAME /\ q[1] = LABEL_CROSS
          /\ p[3] = q[2]
          /\ df_str.rows[p[2] + 1].cells # df_str.rows[p[3] + 1].cells
          /\ df_str.rows[q[2] + 1].cells # df_str.rows[q[3] + 1].cells

\* C7: a run that ends with no pair writes both files, each with no data row
\* and exactly the sheet's (cleaned) columns, and returns (0, 0).
C7_ZeroPairs ==
    (pc = "done" /\ pairs = <<>>) =>
        /\ out_nc = [exists |-> TRUE, columns |-> CleanedHeader, rows |-> <<>>]
        /\ out_c = [exists |-> TRUE, columns |-> CleanedHeader, rows |-> <<>>]
        /\ Len(out_nc.columns) = Len(input.columns)
        /\ ret = <<0, 0>>

\* C7 witness: every record of a non-empty sheet has the excluded inbound
\* group, and the run is done.
C7_Witness ==
    /\ pc = "done"
    /\ Len(input.rows) >= 2
    /\ \A i \in SheetRows : SrcCell(i, COL_INBOUND) = EXCLUDE_GROUP
    /\ out0 = StaleFile
    /\ ret = <<0, 0>>

\* C8: pairing sees surviving records only: df_proc holds exactly the kept
\* sheet rows, no pair has a dropped record on either side, and two kept
\* records of a caller with only dropped records between them in time are
\* paired when at most 24 hours apart.
C8_FilterBeforePairing ==
    /\ pc \in {"sorted", "paired", "done"} =>
          \A sh \in {Sheet} :
              /\ Len(df_proc) = Cardinality({i \in DOMAIN sh : sh[i].kept})
              /\ {SheetRowOf(df_proc[k]._rowid) : k \in DOMAIN df_proc}
                     = {i \in DOMAIN sh : sh[i].kept}
    /\ Paired =>
          \A sh \in {Sheet} :
              /\ \A p \in PairSet : sh[SheetRowOf(p[2])].kept /\ sh[SheetRowOf(p[3])].kept
              /\ \A i \in DOMAIN sh, j \in DOMAIN sh, k \in DOMAIN sh :
                    ( /\ sh[i].kept /\ sh[j].kept /\ ~sh[k].kept
                      /\ sh[k].caller = sh[i].caller
                      /\ sh[i].time <= sh[k].time /\ sh[k].time <= sh[j].time
                      /\ Adjacent(sh, i, j) /\ WithinWindow(sh, i, j) )
                    => <<i, j>> \in PairedSheetRows

\* C8 witness: kept at t0, dropped at t0+1h, kept at t0+24h, in this sheet
\* order; the two kept records are paired.
C8_Witness ==
    /\ Paired
    /\ Len(input.rows) = 3
    /\ SrcKept(1) /\ ~SrcKept(2) /\ SrcKept(3)
    /\ SrcTime(1) = 0 /\ SrcTime(2) = SecondsPerHour /\ SrcTime(3) = 24 * SecondsPerHour
    /\ PairedSheetRows = {<<1, 3>>}

\* C9: records of a caller with equal start times keep their sheet order, in
\* df_proc after the two-key sort and in the pairs after the per-group sort:
\* the pair linking them has the earlier sheet row as A.
C9_TiesBySheetOrder ==
    /\ pc \in {"sorted", "paired", "done"} =>
          \A x \in DOMAIN df_proc, y \in DOMAIN df_proc :
              ( /\ x < y
                /\ CallerOf(df_str.columns, df_proc[x]) = CallerOf(df_str.columns, df_proc[y])
                /\ df_proc[x].time = df_proc[y].time )
              => SheetRowOf(df_proc[x]._rowid) < SheetRowOf(df_proc[y]._rowid)
    /\ Paired =>
          \A sh \in {Sheet} : \A p \in PairSet :
              sh[SheetRowOf(p[2])].time = sh[SheetRowOf(p[3])].time
                  => SheetRowOf(p[2]) < SheetRowOf(p[3])

\* C9 witness: three calls of one caller, the last two in the sheet at the
\* same time and earlier than the first; they are paired in sheet order.
C9_Witness ==
    /\ Paired
    /\ Len(input.rows) = 3
    /\ SrcCaller(1) = SrcCaller(2) /\ SrcCaller(2) = SrcCaller(3)
    /\ SrcTime(2) = SrcTime(3)
    /\ SrcTime(2) < SrcTime(1)
    /\ <<2, 3>> \in PairedSheetRows

\* C10: a record whose caller number is empty once the leading letters, colons
\* and spaces are removed is kept by the filter, and such records are paired
\* with each other as one caller's calls, whatever their original texts.
C10_EmptyCallerPartition ==
    /\ pc \in {"filtered", "sorted", "paired", "done"} =>
          \A sh \in {Sheet} : \A i \in DOMAIN sh :
              (sh[i].kept /\ sh[i].caller = <<>>)
                  => \E k \in DOMAIN df_str.rows :
                         /\ df_str.rows[k].index = i - 1
                         /\ Get(df_str.columns, df_str.rows[k], COL_CALLER) = <<>>
    /\ Paired =>
          \A sh \in {Sheet} :
              \A i \in DOMAIN sh, j \in DOMAIN sh :
                  ( /\ sh[i].caller = <<>> /\ sh[j].caller = <<>>
                    /\ Adjacent(sh, i, j) /\ WithinWindow(sh, i, j) )
                  => <<i, j>> \in PairedSheetRows

\* C10 witness: a pair of two records whose caller cells differ (letters only,
\* a bare prefix, a missing cell) and are both empty once normalised.
C10_Witness ==
    /\ Paired
    /\ \E ij \in PairedSheetRows :
          /\ SrcCell(ij[1], COL_CALLER) # SrcCell(ij[2], COL_CALLER)
          /\ SrcCaller(ij[1]) = <<>>
          /\ SrcCaller(ij[2]) = <<>>

====
